---------------------------- MODULE Spec2Model ----------------------------
(***************************************************************************)
(* Model of amethyst_utils/src/ortho_camera.rs: the NormalOrthoCamera      *)
(* component, CameraNormalizeMode::camera_offsets and the                  *)
(* NormalOrthoCameraSystem.                                                *)
(*                                                                         *)
(* Every scalar of the source is an f32.  An f32 is modelled bit-exactly   *)
(* on the normal range as a record [s, m, e] of value (-1)^s * m * 2^e     *)
(* with m = 0 (and e = 0) or 2^23 <= m < 2^24; the arithmetic rounds to    *)
(* nearest, ties to even, as IEEE 754 binary32 does.  Inputs are kept far  *)
(* from the overflow and underflow thresholds.                             *)
(***************************************************************************)
EXTENDS Integers, Sequences, FiniteSets, TLC

(***************************************************************************)
(* Bounds of the model.                                                    *)
(***************************************************************************)
\* aspect ratios given to camera_offsets have binary exponent in -MaxExp..MaxExp
MaxExp == 26
\* number of distinct aspect ratios the window takes
NumAspects == 3
\* number of alterations of the world by code other than the system
MaxAlter == 1
\* number of entities of the world
NumEntities == 2

(***************************************************************************)
(* f32 arithmetic.                                                         *)
(***************************************************************************)
\* number of significand bits of an f32 (implicit bit included)
Precision == 24

Pow2(n) == 2 ^ n

MinNormal == Pow2(Precision - 1)
MantissaLimit == Pow2(Precision)

RECURSIVE BitLen(_)
BitLen(n) == IF n = 0 THEN 0 ELSE 1 + BitLen(n \div 2)

F32(s, m, e) == [s |-> s, m |-> m, e |-> e]

Zero == F32(0, 0, 0)
One == F32(0, MinNormal, -(Precision - 1))
Two == F32(0, MinNormal, -(Precision - 2))

\* the f32 nearest to (-1)^s * n * 2^e, ties to even; n < 2^31, and when n has
\* more than Precision bits its lowest bit also stands for any discarded lower bits
RoundF32(s, n, e) ==
    IF n = 0 THEN F32(s, 0, 0)
    ELSE LET len == BitLen(n)
         IN  IF len <= Precision
             THEN F32(s, n * Pow2(Precision - len), e - (Precision - len))
             ELSE LET k == len - Precision
                      q == n \div Pow2(k)
                      rem == n % Pow2(k)
                      half == Pow2(k - 1)
                      up == rem > half \/ (rem = half /\ q % 2 = 1)
                      r == IF up THEN q + 1 ELSE q
                  IN  IF r = MantissaLimit
                      THEN F32(s, MinNormal, e + k + 1)
                      ELSE F32(s, r, e + k)

\* |x| < |y|
MagLt(x, y) ==
    IF x.m = 0 THEN y.m # 0
    ELSE IF y.m = 0 THEN FALSE
    ELSE x.e < y.e \/ (x.e = y.e /\ x.m < y.m)

\* the operators ==, <, > of f32 (-0.0 == 0.0)
FEq(x, y) == (x.m = 0 /\ y.m = 0) \/ x = y
FLt(x, y) ==
    IF x.m = 0 /\ y.m = 0 THEN FALSE
    ELSE IF x.s # y.s THEN x.s = 1
    ELSE IF x.s = 0 THEN MagLt(x, y) ELSE MagLt(y, x)
FGt(x, y) == FLt(y, x)
FLe(x, y) == FLt(x, y) \/ FEq(x, y)

\* unary minus flips the sign bit
FNeg(x) == F32(1 - x.s, x.m, x.e)

\* x + y for |x| >= |y|, both nonzero: the significands are aligned with three
\* extra bits (guard, round, sticky)
AddOrdered(x, y) ==
    LET d == x.e - y.e
        a == x.m * 8
        full == y.m * 8
        b == IF d > Precision + 2 THEN 1
             ELSE LET sh == full \div Pow2(d)
                  IN  IF full % Pow2(d) # 0 /\ sh % 2 = 0 THEN sh + 1 ELSE sh
    IN  IF x.s = y.s THEN RoundF32(x.s, a + b, x.e - 3)
        ELSE IF a = b THEN Zero
        ELSE RoundF32(x.s, a - b, x.e - 3)

\* the operator + of f32
FAdd(x, y) ==
    IF x.m = 0 /\ y.m = 0 THEN F32(IF x.s = 1 /\ y.s = 1 THEN 1 ELSE 0, 0, 0)
    ELSE IF y.m = 0 THEN x
    ELSE IF x.m = 0 THEN y
    ELSE IF MagLt(x, y) THEN AddOrdered(y, x) ELSE AddOrdered(x, y)

\* the operator - of f32
FSub(x, y) == FAdd(x, FNeg(y))

\* long division: n more quotient bits of rem / d appended to q
RECURSIVE DivBits(_, _, _, _)
DivBits(q, rem, d, n) ==
    IF n = 0 THEN [q |-> q, rem |-> rem]
    ELSE IF 2 * rem >= d THEN DivBits(2 * q + 1, 2 * rem - d, d, n - 1)
    ELSE DivBits(2 * q, 2 * rem, d, n - 1)

\* the operator / of f32, for a nonzero divisor
FDiv(x, y) ==
    LET s == IF x.s = y.s THEN 0 ELSE 1
    IN  IF x.m = 0 THEN F32(s, 0, 0)
        ELSE LET r == DivBits(x.m \div y.m, x.m % y.m, y.m, Precision + 2)
                 n == IF r.rem # 0 /\ r.q % 2 = 0 THEN r.q + 1 ELSE r.q
             IN  RoundF32(s, n, x.e - y.e - (Precision + 2))

(***************************************************************************)
(* CameraNormalizeMode                                                     *)
(***************************************************************************)
LossyX == "Lossy{X}"
LossyY == "Lossy{Y}"
Shrink == "Shrink"
CameraNormalizeMode == {LossyX, LossyY, Shrink}

Offsets(l, r, b, t) == [left |-> l, right |-> r, bottom |-> b, top |-> t]

\* lossy_x with the offset not halved
lossy_x_whole_offset(aspect_ratio) ==
    LET offset == FSub(aspect_ratio, One)
    IN  Offsets(FNeg(offset), FAdd(One, offset), Zero, One)

lossy_x(aspect_ratio) ==
    LET offset == FDiv(FSub(aspect_ratio, One), Two)
    IN  Offsets(FNeg(offset), FAdd(One, offset), Zero, One)

lossy_y(aspect_ratio) ==
    LET offset == FDiv(FSub(FDiv(One, aspect_ratio), One), Two)
    IN  Offsets(Zero, One, FNeg(offset), FAdd(One, offset))

\* camera_offsets whose Shrink never stretches on Y
camera_offsets_no_y(mode, aspect_ratio) ==
    IF mode = LossyX THEN lossy_x(aspect_ratio)
    ELSE IF mode = LossyY THEN lossy_y(aspect_ratio)
    ELSE IF FGt(aspect_ratio, One) THEN lossy_x(aspect_ratio)
    ELSE Offsets(Zero, One, Zero, One)

\* camera_offsets whose Shrink has its two comparisons exchanged
camera_offsets_swapped(mode, aspect_ratio) ==
    IF mode = LossyX THEN lossy_x(aspect_ratio)
    ELSE IF mode = LossyY THEN lossy_y(aspect_ratio)
    ELSE IF FLt(aspect_ratio, One) THEN lossy_x(aspect_ratio)
    ELSE IF FGt(aspect_ratio, One) THEN lossy_y(aspect_ratio)
    ELSE Offsets(Zero, One, Zero, One)

camera_offsets(mode, aspect_ratio) ==
    IF mode = LossyX THEN lossy_x(aspect_ratio)
    ELSE IF mode = LossyY THEN lossy_y(aspect_ratio)
    ELSE IF FGt(aspect_ratio, One) THEN lossy_x(aspect_ratio)
    ELSE IF FLt(aspect_ratio, One) THEN lossy_y(aspect_ratio)
    ELSE Offsets(Zero, One, Zero, One)


(***************************************************************************)
(* NormalOrthoCamera (the component) and the projection of a Camera        *)
(***************************************************************************)
NormalOrthoCamera(mode) == [mode |-> mode]

\* NormalOrthoCamera::camera_offsets
component_camera_offsets(self, ratio) == camera_offsets(self.mode, ratio)

\* the clip planes 0.1_f32 and 1000.0_f32 of the projection written by run
Near == F32(0, 13421773, -27)
Far == F32(0, 16384000, -14)

Ortho(l, r, b, t, n, f) ==
    [left |-> l, right |-> r, bottom |-> b, top |-> t, near |-> n, far |-> f]

(***************************************************************************)
(* The world: entities, the Camera and NormalOrthoCamera storages, and     *)
(* the inputs of the model.                                                *)
(***************************************************************************)
Entities == 1..NumEntities
NoComponent == [none |-> "component"]
NoCall == [none |-> "call"]
NoResult == [none |-> "result"]
Components == {NormalOrthoCamera(m) : m \in CameraNormalizeMode}

\* significands 1.0, 1.0 + 2^-23, 4/3, 1.5, 16/9 and 2.0 - 2^-23
Significands ==
    {MinNormal, MinNormal + 1, 11184811, 12582912, 14913081, MantissaLimit - 1}

\* the positive aspect ratios camera_offsets is called with
Ratios ==
    {F32(0, m, e - (Precision - 1)) : m \in Significands, e \in (-MaxExp)..MaxExp}

\* the positive aspect ratios of the window: 4/3, 1/2, 1, 16/9, 2/3, 2, 1/4, 8/3
WindowAspects ==
    <<F32(0, 11184811, -23), F32(0, MinNormal, -24), One, F32(0, 14913081, -23),
      F32(0, 11184811, -24), Two, F32(0, MinNormal, -25), F32(0, 11184811, -22)>>

Aspects == {WindowAspects[i] : i \in 1..NumAspects}

\* the projection scene setup gives a camera, and the one another system gives it
SceneProj == Ortho(FNeg(One), One, FNeg(One), One, Near, Far)
OtherProj == Ortho(Zero, Two, Zero, Two, Near, Far)

VARIABLES aspect_ratio_cache, cameras, ortho_cameras, hist, call

vars == <<aspect_ratio_cache, cameras, ortho_cameras, hist, call>>
world == <<aspect_ratio_cache, cameras, ortho_cameras, hist>>

\* entities yielded by (&mut cameras, &ortho_cameras).join()
Joined(cams, orthos) ==
    {e \in Entities : cams[e] # NoComponent /\ orthos[e] # NoComponent}

\* the orders in which a join may yield the entities of S
Orderings(S) ==
    {o \in [1..Cardinality(S) -> S] : \A i, j \in DOMAIN o : o[i] = o[j] => i = j}

(***************************************************************************)
(* NormalOrthoCameraSystem                                                 *)
(***************************************************************************)
\* a new system whose cache is 1.0
DefaultCacheOne == One

\* #[derive(Default)]: the cache of a new system is 0.0
DefaultCache == Zero

\* the calls ortho_camera.camera_offsets(aspect) that run can make, evaluated once
JoinedOffsets ==
    [c \in Components, a \in Aspects |-> component_camera_offsets(c, a)]

\* the projection run gives a camera whose NormalOrthoCamera is c
ProjFor(c, aspect) ==
    LET offsets == JoinedOffsets[c, aspect]
    IN  Ortho(offsets.left, offsets.right, offsets.bottom, offsets.top, Near, Far)

\* the body of the loop of run, for one joined entity
WriteProj(cams, orthos, aspect, e) ==
    [cams EXCEPT ![e] = ProjFor(orthos[e], aspect)]

\* a loop that leaves after the first entity
RunLoopFirstOnly(cams, orthos, aspect, order, i) ==
    IF i > Len(order) THEN cams ELSE WriteProj(cams, orthos, aspect, order[i])

\* the loop of run over the joined entities, visited in the given order
RECURSIVE RunLoop(_, _, _, _, _)
RunLoop(cams, orthos, aspect, order, i) ==
    IF i > Len(order) THEN cams
    ELSE RunLoop(WriteProj(cams, orthos, aspect, order[i]), orthos, aspect, order, i + 1)

\* run that does not store the observed aspect ratio
RunForgetsCache(cache, cams, orthos, aspect, order) ==
    IF ~FEq(aspect, cache)
    THEN [cache |-> cache,
          cameras |-> RunLoop(cams, orthos, aspect, order, 1),
          written |-> {order[i] : i \in DOMAIN order}]
    ELSE [cache |-> cache, cameras |-> cams, written |-> {}]

\* run that visits every camera, taking the default mode where there is no
\* NormalOrthoCamera
RunAllCameras(cache, cams, orthos, aspect, order) ==
    IF ~FEq(aspect, cache)
    THEN [cache |-> aspect,
          cameras |-> [e \in Entities |->
                         IF cams[e] = NoComponent THEN cams[e]
                         ELSE IF orthos[e] = NoComponent
                              THEN ProjFor(NormalOrthoCamera(Shrink), aspect)
                              ELSE ProjFor(orthos[e], aspect)],
          written |-> {e \in Entities : cams[e] # NoComponent}]
    ELSE [cache |-> cache, cameras |-> cams, written |-> {}]

\* run without the comparison with the cache
RunAlways(cache, cams, orthos, aspect, order) ==
    [cache |-> aspect,
     cameras |-> RunLoop(cams, orthos, aspect, order, 1),
     written |-> {order[i] : i \in DOMAIN order}]

\* run that clears the cache when the aspect ratio has not changed
RunResetsCache(cache, cams, orthos, aspect, order) ==
    IF ~FEq(aspect, cache)
    THEN [cache |-> aspect,
          cameras |-> RunLoop(cams, orthos, aspect, order, 1),
          written |-> {order[i] : i \in DOMAIN order}]
    ELSE [cache |-> Zero, cameras |-> cams, written |-> {}]

\* NormalOrthoCameraSystem::run: the new cache, the new Camera storage and the
\* entities whose projection was written
Run(cache, cams, orthos, aspect, order) ==
    IF ~FEq(aspect, cache)
    THEN [cache |-> aspect,
          cameras |-> RunLoop(cams, orthos, aspect, order, 1),
          written |-> {order[i] : i \in DOMAIN order}]
    ELSE [cache |-> cache, cameras |-> cams, written |-> {}]

\* what the model remembers of the last step
Hist(op, aspect, written, repeat, altered) ==
    [op |-> op, aspect |-> aspect, written |-> written, repeat |-> repeat,
     altered |-> altered]

Init ==
    /\ aspect_ratio_cache = DefaultCache
    /\ cameras \in [Entities -> {SceneProj, NoComponent}]
    /\ ortho_cameras \in
         [Entities -> Components \cup {NoComponent}]
    /\ hist = Hist("new", Zero, {}, FALSE, 0)
    /\ call = NoCall

\* one tick of the system, the window having the given aspect ratio
Tick(aspect, order) ==
    LET res == Run(aspect_ratio_cache, cameras, ortho_cameras, aspect, order)
    IN  /\ aspect_ratio_cache' = res.cache
        /\ cameras' = res.cameras
        /\ hist' = Hist("run", aspect, res.written,
                        hist.op = "run" /\ hist.aspect = aspect,
                        hist.altered)
        /\ UNCHANGED <<ortho_cameras, call>>

\* another system overwrites the projection of a camera
SetProj(e) ==
    /\ hist.altered < MaxAlter
    /\ cameras[e] \notin {NoComponent, OtherProj}
    /\ cameras' = [cameras EXCEPT ![e] = OtherProj]
    /\ hist' = Hist("world", Zero, {}, FALSE, hist.altered + 1)
    /\ UNCHANGED <<aspect_ratio_cache, ortho_cameras, call>>

\* a NormalOrthoCamera is inserted on an entity, or its mode is changed
InsertNorm(e, m) ==
    /\ hist.altered < MaxAlter
    /\ ortho_cameras[e] # NormalOrthoCamera(m)
    /\ ortho_cameras' = [ortho_cameras EXCEPT ![e] = NormalOrthoCamera(m)]
    /\ hist' = Hist("world", Zero, {}, FALSE, hist.altered + 1)
    /\ UNCHANGED <<aspect_ratio_cache, cameras, call>>

\* the NormalOrthoCamera of an entity is removed
RemoveNorm(e) ==
    /\ hist.altered < MaxAlter
    /\ ortho_cameras[e] # NoComponent
    /\ ortho_cameras' = [ortho_cameras EXCEPT ![e] = NoComponent]
    /\ hist' = Hist("world", Zero, {}, FALSE, hist.altered + 1)
    /\ UNCHANGED <<aspect_ratio_cache, cameras, call>>

TickStep ==
    \E aspect \in Aspects :
        \E order \in Orderings(Joined(cameras, ortho_cameras)) : Tick(aspect, order)

Next ==
    \/ TickStep
    \/ \E e \in Entities : SetProj(e)
    \/ \E e \in Entities, m \in CameraNormalizeMode : InsertNorm(e, m)
    \/ \E e \in Entities : RemoveNorm(e)

\* the system in a world that other code alters between ticks
Spec == Init /\ [][Next]_vars

\* the system in a world that nothing else alters
SpecOwn == Init /\ [][TickStep]_vars

(***************************************************************************)
(* Calls of camera_offsets on their own                                    *)
(***************************************************************************)
Call(via, mode, ratio, result) ==
    [via |-> via, mode |-> mode, aspect_ratio |-> ratio, result |-> result]

\* the arguments of a call are drawn first, then the method is applied
InitFn ==
    /\ aspect_ratio_cache = DefaultCache
    /\ cameras = [e \in Entities |-> NoComponent]
    /\ ortho_cameras = [e \in Entities |-> NoComponent]
    /\ hist = Hist("new", Zero, {}, FALSE, 0)
    /\ call \in {Call("", mode, ratio, NoResult) :
                   mode \in CameraNormalizeMode, ratio \in Ratios}

\* CameraNormalizeMode::camera_offsets is called
CallMode ==
    /\ call.result = NoResult
    /\ call' = [call EXCEPT !.via = "mode",
                            !.result = camera_offsets(call.mode, call.aspect_ratio)]
    /\ UNCHANGED world

\* NormalOrthoCamera::camera_offsets is called
CallComponent ==
    /\ call.result = NoResult
    /\ call' = [call EXCEPT !.via = "component",
                            !.result = component_camera_offsets(
                                           NormalOrthoCamera(call.mode), call.aspect_ratio)]
    /\ UNCHANGED world

NextFn == CallMode \/ CallComponent

SpecFn == InitFn /\ [][NextFn]_vars

(***************************************************************************)
(* Properties of camera_offsets, checked under SpecFn                      *)
(***************************************************************************)
Called == call.result # NoResult

\* == on the four offsets
OffsetsEq(a, b) ==
    /\ FEq(a.left, b.left) /\ FEq(a.right, b.right)
    /\ FEq(a.bottom, b.bottom) /\ FEq(a.top, b.top)

\* C1: for every r > 0, Shrink.camera_offsets(r) equals Lossy{X}.camera_offsets(r)
\* when r > 1.0, Lossy{Y}.camera_offsets(r) when r < 1.0, and (0, 1, 0, 1) when
\* r == 1.0.
C1_ShrinkPicksAxis ==
    Called /\ call.mode = Shrink =>
        LET r == call.aspect_ratio
        IN  /\ FGt(r, One) => OffsetsEq(call.result, camera_offsets(LossyX, r))
            /\ FLt(r, One) => OffsetsEq(call.result, camera_offsets(LossyY, r))
            /\ FEq(r, One) => OffsetsEq(call.result, Offsets(Zero, One, Zero, One))

\* a call of Shrink with r < 1.0 that stretched the Y axis
C1_Witness ==
    /\ Called /\ call.mode = Shrink
    /\ FLt(call.aspect_ratio, One)
    /\ FLt(call.result.bottom, Zero) /\ FGt(call.result.top, One)

\* C6: the bounds computed by camera_offsets satisfy left < right and
\* bottom < top, for every mode and every positive aspect ratio.
C6_StrictBounds ==
    Called =>
        /\ FLt(call.result.left, call.result.right)
        /\ FLt(call.result.bottom, call.result.top)

\* x + y is computed without rounding: the sum gives back each operand
AddExact(x, y) ==
    LET sum == FAdd(x, y)
    IN  FEq(FSub(sum, y), x) /\ FEq(FSub(sum, x), y)

\* r - 1.0 and 1.0 + offset of lossy_x are computed without rounding
LossyXExact(r) ==
    /\ AddExact(r, FNeg(One))
    /\ AddExact(One, FDiv(FSub(r, One), Two))

\* 1.0 / r (r a power of two), 1.0 / r - 1.0 and 1.0 + offset of lossy_y are
\* computed without rounding
LossyYExact(r) ==
    /\ r.m = MinNormal
    /\ LossyXExact(FDiv(One, r))

\* C7, as claimed: for every r > 0, Lossy{X}.camera_offsets(r) has bottom == 0,
\* top == 1, left + right == 1 and right - left == r, and Lossy{Y}.camera_offsets(r)
\* has left == 0, right == 1, bottom + top == 1 and top - bottom == 1/r.
C7_SymmetricSpan ==
    LET r == call.aspect_ratio
        o == call.result
    IN  /\ Called /\ call.mode = LossyX =>
              /\ FEq(o.bottom, Zero) /\ FEq(o.top, One)
              /\ FEq(FAdd(o.left, o.right), One)
              /\ FEq(FSub(o.right, o.left), r)
        /\ Called /\ call.mode = LossyY =>
              /\ FEq(o.left, Zero) /\ FEq(o.right, One)
              /\ FEq(FAdd(o.bottom, o.top), One)
              /\ FEq(FSub(o.top, o.bottom), FDiv(One, r))

\* C7, amended: the axis opposite to the stretch direction is exactly [0, 1] for
\* every r > 0; left + right == 1 and right - left == r (bottom + top == 1 and
\* top - bottom == 1/r) hold whenever no f32 operation of the formula rounds.
C7_SymmetricSpanWhenExact ==
    LET r == call.aspect_ratio
        o == call.result
    IN  /\ Called /\ call.mode = LossyX =>
              /\ FEq(o.bottom, Zero) /\ FEq(o.top, One)
              /\ LossyXExact(r) =>
                    /\ FEq(FAdd(o.left, o.right), One)
                    /\ FEq(FSub(o.right, o.left), r)
        /\ Called /\ call.mode = LossyY =>
              /\ FEq(o.left, Zero) /\ FEq(o.right, One)
              /\ LossyYExact(r) =>
                    /\ FEq(FAdd(o.bottom, o.top), One)
                    /\ FEq(FSub(o.top, o.bottom), FDiv(One, r))

\* a call of Lossy{X} with r = 1.5 * 2^k > 1, computed without rounding
C7_Witness ==
    /\ Called /\ call.mode = LossyX
    /\ LossyXExact(call.aspect_ratio)
    /\ call.aspect_ratio.m # MinNormal
    /\ FLt(call.result.left, Zero)

\* C8: for every r > 0, Shrink.camera_offsets(r) has left <= 0, right >= 1,
\* bottom <= 0 and top >= 1: the unit square is inside the visible rectangle.
C8_ShrinkKeepsUnitSquare ==
    Called /\ call.mode = Shrink =>
        /\ FLe(call.result.left, Zero) /\ FLe(One, call.result.right)
        /\ FLe(call.result.bottom, Zero) /\ FLe(One, call.result.top)

\* a call of Shrink with r > 1.0 that stretched the X axis
C8_Witness ==
    /\ Called /\ call.mode = Shrink
    /\ FGt(call.aspect_ratio, One)
    /\ FLt(call.result.left, Zero) /\ FGt(call.result.right, One)

(***************************************************************************)
(* Properties of NormalOrthoCameraSystem::run, checked under Spec          *)
(***************************************************************************)
\* the step is a tick of the system; hist'.aspect is the aspect ratio it observes
IsTick == hist'.op = "run"

HasCameraOnly(e) == cameras[e] # NoComponent /\ ortho_cameras[e] = NoComponent

\* policy.camera_offsets(a) for every policy and every aspect ratio of the window
PolicyOffsets ==
    [c \in Components, a \in Aspects |-> camera_offsets(c.mode, a)]

\* C2: a tick that observes an aspect ratio different from the cached one sets
\* the cache to the observed aspect ratio and overwrites the projection of every
\* entity having both a Camera and a NormalOrthoCamera with the orthographic
\* projection of bounds policy.camera_offsets(observed aspect), near 0.1 and
\* far 1000.0.
C2_RecomputeOnChange ==
    [][IsTick /\ ~FEq(hist'.aspect, aspect_ratio_cache) =>
          /\ aspect_ratio_cache' = hist'.aspect
          /\ \A e \in Joined(cameras, ortho_cameras) :
                LET offsets == PolicyOffsets[ortho_cameras[e], hist'.aspect]
                IN  /\ cameras'[e] = Ortho(offsets.left, offsets.right, offsets.bottom,
                                           offsets.top, Near, Far)
                    /\ e \in hist'.written]_vars

\* the last step was a tick that changed the cache from one window aspect ratio to
\* another and overwrote the projection of a camera
C2_Witness ==
    /\ hist.op = "run" /\ hist.written # {}
    /\ aspect_ratio_cache = hist.aspect
    /\ \E e \in hist.written :
          /\ ortho_cameras[e] = NormalOrthoCamera(LossyY)
          /\ cameras[e].near = Near /\ cameras[e].far = Far
          /\ FLt(cameras[e].bottom, Zero)

\* C3: an entity that has a Camera but no NormalOrthoCamera never has its
\* projection changed by a tick.
C3_OptOut ==
    [][IsTick =>
          \A e \in Entities :
              HasCameraOnly(e) => cameras'[e] = cameras[e] /\ e \notin hist'.written]_vars

\* the last step was a tick that wrote projections and left the projection of a
\* camera without NormalOrthoCamera as scene setup gave it
C3_Witness ==
    /\ hist.op = "run" /\ hist.written # {}
    /\ \E e \in Entities : HasCameraOnly(e) /\ cameras[e] = SceneProj

\* C4: a tick that observes the cached aspect ratio writes no projection and
\* leaves the cache unchanged, even if projections or NormalOrthoCamera components
\* were altered since the tick that set the cache.
C4_CacheHitWritesNothing ==
    [][IsTick /\ FEq(hist'.aspect, aspect_ratio_cache) =>
          /\ cameras' = cameras
          /\ aspect_ratio_cache' = aspect_ratio_cache
          /\ hist'.written = {}]_vars

\* the last step was a tick that observed the cached aspect ratio and wrote
\* nothing, although the world was altered after the cache was set and a joined
\* camera does not have the projection of its policy
C4_Witness ==
    /\ hist.op = "run" /\ hist.written = {} /\ hist.altered > 0
    /\ aspect_ratio_cache = hist.aspect
    /\ \E e \in Joined(cameras, ortho_cameras) :
          cameras[e] # ProjFor(ortho_cameras[e], aspect_ratio_cache)

\* C5: the second of two ticks in a row with the same window dimensions leaves
\* every projection and the cache as the first tick left them.
C5_Idempotent ==
    [][IsTick /\ hist'.repeat =>
          cameras' = cameras /\ aspect_ratio_cache' = aspect_ratio_cache]_vars

\* the last two steps were ticks with the same aspect ratio, and the first of
\* them had projections to write
C5_Witness ==
    /\ hist.op = "run" /\ hist.repeat
    /\ \E e \in Joined(cameras, ortho_cameras) :
          cameras[e] = ProjFor(ortho_cameras[e], hist.aspect)

\* C9: the result of a recomputing tick is the same for every order in which the
\* joined entities are visited, and the new projection of an entity is the one a
\* tick gives it in a world where it is the only entity visited.
C9_OrderIndependent ==
    [][IsTick =>
          LET joined == Joined(cameras, ortho_cameras)
          IN  /\ \A o \in Orderings(joined) :
                    LET res == Run(aspect_ratio_cache, cameras, ortho_cameras,
                                   hist'.aspect, o)
                    IN  res.cameras = cameras' /\ res.cache = aspect_ratio_cache'
              /\ \A e \in joined :
                    cameras'[e] = Run(aspect_ratio_cache, cameras, ortho_cameras,
                                      hist'.aspect, <<e>>).cameras[e]]_vars

\* the last step was a tick that wrote the projections of two entities of
\* different modes
C9_Witness ==
    /\ hist.op = "run"
    /\ \E e, f \in hist.written :
          /\ ortho_cameras[e] # ortho_cameras[f]
          /\ cameras[e] # cameras[f]

(***************************************************************************)
(* Checked under SpecOwn: nothing but the system alters the world          *)
(***************************************************************************)
\* C10: from a new system (cache 0.0), after every tick that observes a positive
\* aspect ratio a the cache equals a and every entity having both a Camera and a
\* NormalOrthoCamera has the projection of bounds policy.camera_offsets(a), near
\* 0.1 and far 1000.0.
C10_Consistent ==
    hist.op = "run" =>
        /\ aspect_ratio_cache = hist.aspect
        /\ \A e \in Joined(cameras, ortho_cameras) :
              LET offsets == PolicyOffsets[ortho_cameras[e], hist.aspect]
              IN  cameras[e] = Ortho(offsets.left, offsets.right, offsets.bottom,
                                     offsets.top, Near, Far)

\* the very first tick of a new system observed 1.0 and gave a Shrink camera the
\* unit square
C10_Witness ==
    /\ hist.op = "run" /\ ~hist.repeat /\ hist.aspect = One
    /\ \E e \in hist.written :
          /\ ortho_cameras[e] = NormalOrthoCamera(Shrink)
          /\ cameras[e] = Ortho(Zero, One, Zero, One, Near, Far)

=============================================================================
